---- MODULE Spec2Model ----
(***************************************************************************)
(* Resilient fetch over a pool of single-use Tor circuits.                 *)
(*                                                                         *)
(* Spec / FairSpec model tryFetchTorAsText (src/pages/index.tsx 232-265),  *)
(* the variant that takes a circuit out of a Mutex<Pool<Circuit>>.         *)
(* SpecRandom models tryFetchTorText (src/unnamed/part_000 68-97), the     *)
(* variant that only calls pool.random().                                  *)
(*                                                                         *)
(* Every fetch call is one task.  Circuits are object instances: an id     *)
(* names an instance for as long as the pool or a task refers to it, and   *)
(* an id nobody refers to any more may name a newly created instance.      *)
(***************************************************************************)
EXTENDS Integers, Sequences, FiniteSets, TLC

\* Bounds of the model.
NTasks == 2
MaxCapacity == 2
MaxTries == 3

\* setTimeout(ok, 1000)
SleepMs == 1000

\* An attempt budget N and a backoff base as the specification document
\* configures the fetch operation (maxAttempts, backoffBase = 1s); the source
\* has neither.
maxAttempts == 2
backoffBase == 1000

Tasks == 1..NTasks
Ids   == 1..(MaxCapacity + NTasks)

VARIABLES
  tor,        \* the state of useTor(): "undefined" until the client is made, "ready"
  page,       \* what the last render of Page computed: pool, mutex, fetcher
  capacity,   \* pool.capacity
  pool,       \* the Ready circuits of the pool (pool.size of them)
  alive,      \* circuit id -> "none" | "open" | "destroyed"
  use,        \* circuit id -> "fresh" | "started" | "ended" (requests carried)
  leases,     \* circuit id -> how many takes returned this instance
  mutex,      \* Mutex: the callers of lock(), the head runs its callback
  pc,         \* task -> its position in the retry loop
  abortedAt,  \* task -> "none", or where the call was when signal.aborted became
              \*         true: "idle" | "take" | "flight"
  circuit,    \* task -> the circuit of its current iteration, 0 before the first
  status,     \* task -> "none" | "ok" | "notok": res.ok of the current attempt
  exchange,   \* task -> "none" | "inflight" | "complete" | "failed" | "timedout":
              \*         the current attempt
  result,     \* task -> "none" | "data" | "error" | "Aborted" | "rethrown"
  attempts,   \* task -> request attempts started
  fails,      \* task -> attempts that threw into the catch block
  sleeps,     \* task -> backoff sleeps started
  warnings,   \* task -> console.warn calls
  removals,   \* task -> circuits the call deleted from the pool
  destroys,   \* task -> circuits the call destroyed
  lastDelay   \* task -> milliseconds of the last sleep started

vars == << tor, page, capacity, pool, alive, use, leases, mutex, pc, abortedAt, circuit,
           status, exchange, result, attempts, fails, sleeps, warnings,
           removals, destroys, lastDelay >>

pageVars == << tor, page >>
poolVars == << capacity, pool, alive, use, leases, mutex >>
countVars == << attempts, fails, sleeps, warnings, removals, destroys, lastDelay >>

\* The counters observe the run; they stop counting at MaxTries, the loop goes on.
Bump(n) == IF n < MaxTries THEN n + 1 ELSE n

Aborted(t) == abortedAt[t] # "none"

InPool(c) == c \in pool
Referenced(c) == \E t \in Tasks : circuit[t] = c
NewId == CHOOSE c \in Ids : ~InPool(c) /\ ~Referenced(c)

\* pool.size
PoolSize == Cardinality(pool)

\* Where a call is: taking a circuit, with a request in flight, or neither.
Phase(t) ==
  CASE pc[t] \in {"locking", "awaiting", "selected"} -> "take"
    [] pc[t] \in {"requesting", "reading"} -> "flight"
    [] OTHER -> "idle"

\* The instance `old` that task t's variable held, once the variable is gone:
\* nothing refers to it any more.
Collectable(old, t) ==
  /\ old # 0
  /\ ~InPool(old)
  /\ \A u \in Tasks \ {t} : circuit[u] # old

\* A slot of the pool that holds a usable circuit
Ready(c) == InPool(c) /\ alive[c] = "open"

\* circuits.delete(circuit): the slot holding it becomes empty, no-op when absent
PoolWithout(c) == pool \ {c}

\* useCircuitPool(tor, params): if (!tor) return
UseCircuitPool(tr) == IF tr = "undefined" THEN "undefined" ELSE "defined"

\* useMutex(inner): if (!inner) return
UseMutex(inner) == IF inner = "undefined" THEN "undefined" ELSE "defined"

\* getTorText(url, pool): if (!pool) return -- no schema, and so no fetcher
GetTorTextUnguarded(pl) == "fetcher"
GetTorText(pl) == IF pl = "undefined" THEN "none" ELSE "fetcher"

\* One render of Page with useTor() giving tr
Rendered(tr) ==
  LET pl == UseCircuitPool(tr)
      mx == UseMutex(pl)
  IN  [ pool |-> pl, mutex |-> mx, fetcher |-> GetTorText(mx) ]

\* The page is set up and every call has been made: each is at the top of its loop.
Init ==
  /\ tor = "ready"
  /\ page = Rendered("ready")
  /\ capacity \in 1..MaxCapacity
  /\ pool = {}
  /\ alive = [ c \in Ids |-> "none" ]
  /\ use = [ c \in Ids |-> "fresh" ]
  /\ leases = [ c \in Ids |-> 0 ]
  /\ mutex = << >>
  /\ pc = [ t \in Tasks |-> "top" ]
  /\ abortedAt = [ t \in Tasks |-> "none" ]
  /\ circuit = [ t \in Tasks |-> 0 ]
  /\ status = [ t \in Tasks |-> "none" ]
  /\ exchange = [ t \in Tasks |-> "none" ]
  /\ result = [ t \in Tasks |-> "none" ]
  /\ attempts = [ t \in Tasks |-> 0 ]
  /\ fails = [ t \in Tasks |-> 0 ]
  /\ sleeps = [ t \in Tasks |-> 0 ]
  /\ warnings = [ t \in Tasks |-> 0 ]
  /\ removals = [ t \in Tasks |-> 0 ]
  /\ destroys = [ t \in Tasks |-> 0 ]
  /\ lastDelay = [ t \in Tasks |-> 0 ]

----------------------------------------------------------------------------
\* The environment.

\* The caller (or the schema's 30 s timeout) aborts the signal of call t.
Abort(t) ==
  /\ pc[t] \notin {"idle", "done"}
  /\ ~Aborted(t)
  /\ abortedAt' = [abortedAt EXCEPT ![t] = Phase(t)]
  /\ UNCHANGED << pageVars, poolVars, pc, circuit, status, exchange, result, countVars >>

\* The pool made by createCircuitPool fills an empty slot with a newly created
\* circuit (the Pool of @hazae41/piscine keeps `capacity` circuits warm; a
\* factory that fails leaves the slot empty, which is no step here).
PoolCreate ==
  /\ page.pool = "defined"
  /\ PoolSize < capacity
  /\ LET c == NewId IN
       /\ pool' = pool \cup {c}
       /\ alive' = [alive EXCEPT ![c] = "open"]
       /\ use' = [use EXCEPT ![c] = "fresh"]
       /\ leases' = [leases EXCEPT ![c] = 0]
  /\ UNCHANGED << pageVars, capacity, mutex, pc, abortedAt, circuit, status, exchange,
                  result, countVars >>

----------------------------------------------------------------------------
\* The retry loop.

\* if (signal?.aborted), at the top of the loop
TopAbortedNever(t) == FALSE
TopAborted(t) == Aborted(t)

\* throw new Error(`Aborted`)
CheckAborted(t) ==
  /\ pc[t] = "top"
  /\ TopAborted(t)
  /\ pc' = [pc EXCEPT ![t] = "done"]
  /\ result' = [result EXCEPT ![t] = "Aborted"]
  /\ UNCHANGED << pageVars, poolVars, abortedAt, circuit, status, exchange, countVars >>

\* pool.lock(callback): the call joins the mutex's queue
Lock(t) ==
  /\ pc[t] = "top"
  /\ ~TopAborted(t)
  /\ mutex' = Append(mutex, t)
  /\ pc' = [pc EXCEPT ![t] = "locking"]
  /\ UNCHANGED << pageVars, capacity, pool, alive, use, leases, abortedAt, circuit,
                  status, exchange, result, countVars >>

\* The end of an iteration's block: its `const circuit` is gone
Forget(old, t) ==
  IF Collectable(old, t)
  THEN /\ alive' = [alive EXCEPT ![old] = "none"]
       /\ use' = [use EXCEPT ![old] = "fresh"]
       /\ leases' = [leases EXCEPT ![old] = 0]
  ELSE UNCHANGED << alive, use, leases >>

\* The callback of lock() runs for the head of the queue only.
MutexNotExclusive(t) == TRUE
MutexHeldLast(t) == Len(mutex) > 0 /\ mutex[Len(mutex)] = t
MutexHeld(t) == Len(mutex) > 0 /\ Head(mutex) = t

\* const circuit = await circuits.cryptoRandom(): waits for a Ready circuit
CryptoRandom(t) ==
  /\ pc[t] = "locking"
  /\ MutexHeld(t)
  /\ \E c \in pool : circuit' = [circuit EXCEPT ![t] = c]
  /\ pc' = [pc EXCEPT ![t] = "selected"]
  /\ UNCHANGED << pageVars, poolVars, abortedAt, status, exchange, result, countVars >>

\* The mutex after the callback of t has returned.
UnlockedNever(t) == mutex
Unlocked(t) == SelectSeq(mutex, LAMBDA u : u # t)

\* try { AbortSignal.timeout(5000); circuit.tryFetch(url, { signal })
StartRequest(t, c) ==
  /\ pc' = [pc EXCEPT ![t] = "requesting"]
  /\ use' = [use EXCEPT ![c] = IF @ = "fresh" THEN "started" ELSE @]
  /\ status' = [status EXCEPT ![t] = "none"]
  /\ exchange' = [exchange EXCEPT ![t] = "inflight"]
  /\ attempts' = [attempts EXCEPT ![t] = Bump(@)]

\* circuits.delete(circuit); return circuit -- the callback ends and the lock is
\* released; the call goes on into the try block and starts the request
DeleteForgotten(t) ==
  /\ pc[t] = "selected"
  /\ leases' = [leases EXCEPT ![circuit[t]] = @ + 1]
  /\ mutex' = Unlocked(t)
  /\ StartRequest(t, circuit[t])
  /\ UNCHANGED << pageVars, capacity, pool, alive, abortedAt, circuit, result,
                  fails, sleeps, warnings, removals, destroys, lastDelay >>
Delete(t) ==
  /\ pc[t] = "selected"
  /\ pool' = PoolWithout(circuit[t])
  /\ removals' = [removals EXCEPT ![t] = IF InPool(circuit[t]) THEN Bump(@) ELSE @]
  /\ leases' = [leases EXCEPT ![circuit[t]] = @ + 1]
  /\ mutex' = Unlocked(t)
  /\ StartRequest(t, circuit[t])
  /\ UNCHANGED << pageVars, capacity, alive, abortedAt, circuit, result,
                  fails, sleeps, warnings, destroys, lastDelay >>

\* tryFetch resolved with a response: res.ok is st = "ok"; res.text() is awaited next
Respond(t, st) ==
  /\ pc[t] = "requesting"
  /\ status' = [status EXCEPT ![t] = st]
  /\ pc' = [pc EXCEPT ![t] = "reading"]
  /\ UNCHANGED << pageVars, poolVars, abortedAt, circuit, exchange, result, countVars >>

\* return { error } / return { data }
HandleBodyThrowing(t) ==
  /\ pc' = [pc EXCEPT ![t] = IF status[t] = "ok" THEN "done" ELSE "sleeping"]
  /\ result' = [result EXCEPT ![t] = IF status[t] = "ok" THEN "data" ELSE @]
  /\ warnings' = [warnings EXCEPT ![t] = IF status[t] = "ok" THEN @ ELSE Bump(@)]
  /\ sleeps' = [sleeps EXCEPT ![t] = IF status[t] = "ok" THEN @ ELSE Bump(@)]
  /\ UNCHANGED << pool, alive, destroys, lastDelay >>
HandleBodyChecksSignal(t) ==
  /\ pc' = [pc EXCEPT ![t] = "done"]
  /\ result' = [result EXCEPT ![t] =
                  IF Aborted(t) THEN "Aborted"
                  ELSE IF status[t] = "ok" THEN "data" ELSE "error"]
  /\ UNCHANGED << pool, alive, warnings, sleeps, destroys, lastDelay >>
HandleBody(t) ==
  /\ pc' = [pc EXCEPT ![t] = "done"]
  /\ result' = [result EXCEPT ![t] = IF status[t] = "ok" THEN "data" ELSE "error"]
  /\ UNCHANGED << pool, alive, warnings, sleeps, destroys, lastDelay >>

\* await res.text() resolved: the exchange is complete
ReadBody(t) ==
  /\ pc[t] = "reading"
  /\ exchange' = [exchange EXCEPT ![t] = "complete"]
  /\ use' = [use EXCEPT ![circuit[t]] = "ended"]
  /\ HandleBody(t)
  /\ UNCHANGED << pageVars, capacity, leases, mutex, abortedAt, circuit, status,
                  attempts, fails, removals >>

\* if (signal?.aborted), in the catch block: `signal` is the one of init, the
\* const signal of the try block is out of scope here
CatchAbortedOrTimedOut(t) == Aborted(t) \/ exchange'[t] = "timedout"
CatchAborted(t) == Aborted(t)

\* setTimeout(ok, 1000) after the failure of attempt i (0-indexed)
DelayExponential(i) == SleepMs * 2^i
Delay(i) == SleepMs

\* catch (e): throw e when aborted, else tryDestroy, warn, sleep.  A destroyed
\* circuit that is still in a pool (the pool.random() variant) leaves it.
CatchWithBudget(t) ==
  IF CatchAborted(t)
  THEN /\ pc' = [pc EXCEPT ![t] = "done"]
       /\ result' = [result EXCEPT ![t] = "rethrown"]
       /\ UNCHANGED << pool, alive, warnings, sleeps, destroys, lastDelay >>
  ELSE /\ alive' = [alive EXCEPT ![circuit[t]] = "destroyed"]
       /\ destroys' = [destroys EXCEPT ![t] = Bump(@)]
       /\ pool' = PoolWithout(circuit[t])
       /\ warnings' = [warnings EXCEPT ![t] = Bump(@)]
       /\ IF fails[t] + 1 >= maxAttempts
          THEN /\ pc' = [pc EXCEPT ![t] = "done"]
               /\ result' = [result EXCEPT ![t] = "TooManyRetries"]
               /\ UNCHANGED << sleeps, lastDelay >>
          ELSE /\ pc' = [pc EXCEPT ![t] = "sleeping"]
               /\ sleeps' = [sleeps EXCEPT ![t] = Bump(@)]
               /\ lastDelay' = [lastDelay EXCEPT ![t] = Delay(fails[t])]
               /\ UNCHANGED result
CatchNoDestroy(t) ==
  IF CatchAborted(t)
  THEN /\ pc' = [pc EXCEPT ![t] = "done"]
       /\ result' = [result EXCEPT ![t] = "rethrown"]
       /\ UNCHANGED << pool, alive, warnings, sleeps, destroys, lastDelay >>
  ELSE /\ warnings' = [warnings EXCEPT ![t] = Bump(@)]
       /\ sleeps' = [sleeps EXCEPT ![t] = Bump(@)]
       /\ lastDelay' = [lastDelay EXCEPT ![t] = Delay(fails[t])]
       /\ pc' = [pc EXCEPT ![t] = "sleeping"]
       /\ UNCHANGED << pool, alive, destroys, result >>
CatchReturnsCircuit(t) ==
  IF CatchAborted(t)
  THEN /\ pc' = [pc EXCEPT ![t] = "done"]
       /\ result' = [result EXCEPT ![t] = "rethrown"]
       /\ UNCHANGED << pool, alive, warnings, sleeps, destroys, lastDelay >>
  ELSE /\ alive' = [alive EXCEPT ![circuit[t]] = "destroyed"]
       /\ destroys' = [destroys EXCEPT ![t] = Bump(@)]
       /\ pool' = pool \cup {circuit[t]}
       /\ warnings' = [warnings EXCEPT ![t] = Bump(@)]
       /\ sleeps' = [sleeps EXCEPT ![t] = Bump(@)]
       /\ lastDelay' = [lastDelay EXCEPT ![t] = Delay(fails[t])]
       /\ pc' = [pc EXCEPT ![t] = "sleeping"]
       /\ UNCHANGED result
Catch(t) ==
  IF CatchAborted(t)
  THEN /\ pc' = [pc EXCEPT ![t] = "done"]
       /\ result' = [result EXCEPT ![t] = "rethrown"]
       /\ UNCHANGED << pool, alive, warnings, sleeps, destroys, lastDelay >>
  ELSE /\ alive' = [alive EXCEPT ![circuit[t]] = "destroyed"]
       /\ destroys' = [destroys EXCEPT ![t] = Bump(@)]
       /\ pool' = PoolWithout(circuit[t])
       /\ warnings' = [warnings EXCEPT ![t] = Bump(@)]
       /\ sleeps' = [sleeps EXCEPT ![t] = Bump(@)]
       /\ lastDelay' = [lastDelay EXCEPT ![t] = Delay(fails[t])]
       /\ pc' = [pc EXCEPT ![t] = "sleeping"]
       /\ UNCHANGED result

\* tryFetch(...).unwrap() or res.text() threw, how = "failed" | "timedout"
Throw(t, how) ==
  /\ pc[t] \in {"requesting", "reading"}
  /\ exchange' = [exchange EXCEPT ![t] = how]
  /\ use' = [use EXCEPT ![circuit[t]] = "ended"]
  /\ status' = [status EXCEPT ![t] = "none"]
  /\ fails' = [fails EXCEPT ![t] = Bump(@)]
  /\ Catch(t)
  /\ UNCHANGED << pageVars, capacity, leases, mutex, abortedAt, circuit, attempts, removals >>

\* The transport failed: the circuit broke, the Err of tryFetch was unwrapped
Fail(t) == Throw(t, "failed")

\* The signal of AbortSignal.timeout(5000), made for this attempt, fired
Timeout(t) == Throw(t, "timedout")

\* the timer of the backoff sleep fires: the iteration ends, and with it the
\* scope of its `circuit`; back to the top of while (true)
Wake(t) ==
  /\ pc[t] = "sleeping"
  /\ pc' = [pc EXCEPT ![t] = "top"]
  /\ circuit' = [circuit EXCEPT ![t] = 0]
  /\ Forget(circuit[t], t)
  /\ exchange' = [exchange EXCEPT ![t] = "none"]
  /\ UNCHANGED << pageVars, capacity, pool, mutex, abortedAt, status, result, countVars >>

\* The end of one request attempt, whichever way.
RequestEnds(t) ==
  \/ \E st \in {"ok", "notok"} : Respond(t, st)
  \/ ReadBody(t)
  \/ Fail(t)
  \/ Timeout(t)

Next ==
  \/ \E t \in Tasks : Abort(t)
  \/ PoolCreate
  \/ \E t \in Tasks : CheckAborted(t)
  \/ \E t \in Tasks : Lock(t)
  \/ \E t \in Tasks : CryptoRandom(t)
  \/ \E t \in Tasks : Delete(t)
  \/ \E t \in Tasks : \E st \in {"ok", "notok"} : Respond(t, st)
  \/ \E t \in Tasks : ReadBody(t)
  \/ \E t \in Tasks : Fail(t)
  \/ \E t \in Tasks : Timeout(t)
  \/ \E t \in Tasks : Wake(t)

Spec == Init /\ [][Next]_vars

\* Every step of a call that can run does run, every request attempt ends (the
\* 5 s timeout ends it at the latest), and the pool goes on creating circuits.
\* Nothing obliges the caller to abort or the transport to answer.
Fairness ==
  /\ WF_vars(PoolCreate)
  /\ \A t \in Tasks :
       /\ WF_vars(CheckAborted(t))
       /\ WF_vars(Lock(t))
       /\ WF_vars(CryptoRandom(t))
       /\ WF_vars(Delete(t))
       /\ WF_vars(RequestEnds(t))
       /\ WF_vars(Wake(t))

\* The tightest pool: { capacity: 1 }.
FairInit == Init /\ capacity = 1

FairSpec == FairInit /\ [][Next]_vars /\ Fairness

----------------------------------------------------------------------------
\* tryFetchTorText of src/unnamed/part_000: the circuit comes from pool.random()
\* and stays in the pool.

\* const circuit = await pool.random(), called
AwaitRandom(t) ==
  /\ pc[t] = "top"
  /\ ~TopAborted(t)
  /\ pc' = [pc EXCEPT ![t] = "awaiting"]
  /\ UNCHANGED << pageVars, poolVars, abortedAt, circuit, status, exchange, result, countVars >>

\* pool.random() resolved with a Ready circuit; the call goes on into the try
\* block and starts the request: circuit.fetch(url, { signal })
Random(t) ==
  /\ pc[t] = "awaiting"
  /\ \E c \in pool :
       /\ circuit' = [circuit EXCEPT ![t] = c]
       /\ leases' = [leases EXCEPT ![c] = Bump(@)]
       /\ StartRequest(t, c)
  /\ UNCHANGED << pageVars, capacity, pool, alive, mutex, abortedAt, result,
                  fails, sleeps, warnings, removals, destroys, lastDelay >>

NextRandom ==
  \/ \E t \in Tasks : Abort(t)
  \/ PoolCreate
  \/ \E t \in Tasks : CheckAborted(t)
  \/ \E t \in Tasks : AwaitRandom(t)
  \/ \E t \in Tasks : Random(t)
  \/ \E t \in Tasks : \E st \in {"ok", "notok"} : Respond(t, st)
  \/ \E t \in Tasks : ReadBody(t)
  \/ \E t \in Tasks : Fail(t)
  \/ \E t \in Tasks : Timeout(t)
  \/ \E t \in Tasks : Wake(t)

SpecRandom == Init /\ [][NextRandom]_vars

----------------------------------------------------------------------------
\* Page, from its first render: the Tor client is still being made, no call yet.

InitPage ==
  /\ tor = "undefined"
  /\ page = Rendered("undefined")
  /\ capacity \in 1..MaxCapacity
  /\ pool = {}
  /\ alive = [ c \in Ids |-> "none" ]
  /\ use = [ c \in Ids |-> "fresh" ]
  /\ leases = [ c \in Ids |-> 0 ]
  /\ mutex = << >>
  /\ pc = [ t \in Tasks |-> "idle" ]
  /\ abortedAt = [ t \in Tasks |-> "none" ]
  /\ circuit = [ t \in Tasks |-> 0 ]
  /\ status = [ t \in Tasks |-> "none" ]
  /\ exchange = [ t \in Tasks |-> "none" ]
  /\ result = [ t \in Tasks |-> "none" ]
  /\ attempts = [ t \in Tasks |-> 0 ]
  /\ fails = [ t \in Tasks |-> 0 ]
  /\ sleeps = [ t \in Tasks |-> 0 ]
  /\ warnings = [ t \in Tasks |-> 0 ]
  /\ removals = [ t \in Tasks |-> 0 ]
  /\ destroys = [ t \in Tasks |-> 0 ]
  /\ lastDelay = [ t \in Tasks |-> 0 ]

\* The promise of useAsyncMemo resolved: setState(client)
TorReady ==
  /\ tor = "undefined"
  /\ tor' = "ready"
  /\ UNCHANGED << page, poolVars, pc, abortedAt, circuit, status, exchange,
                  result, countVars >>

\* Page renders again after the state changed: the useMemo of the pool and of
\* the mutex run, getTorText makes the schema
Render ==
  /\ page # Rendered(tor)
  /\ page' = Rendered(tor)
  /\ UNCHANGED << tor, poolVars, pc, abortedAt, circuit, status, exchange,
                  result, countVars >>

\* onClick: torIP.fetch() runs the fetcher of the schema, when there is one
Click(t) ==
  /\ pc[t] = "idle"
  /\ page.fetcher = "fetcher"
  /\ pc' = [pc EXCEPT ![t] = "top"]
  /\ UNCHANGED << pageVars, poolVars, abortedAt, circuit, status, exchange,
                  result, countVars >>

NextPage ==
  \/ TorReady
  \/ Render
  \/ \E t \in Tasks : Click(t)
  \/ \E t \in Tasks : Abort(t)
  \/ PoolCreate
  \/ \E t \in Tasks : CheckAborted(t)
  \/ \E t \in Tasks : Lock(t)
  \/ \E t \in Tasks : CryptoRandom(t)
  \/ \E t \in Tasks : Delete(t)
  \/ \E t \in Tasks : \E st \in {"ok", "notok"} : Respond(t, st)
  \/ \E t \in Tasks : ReadBody(t)
  \/ \E t \in Tasks : Fail(t)
  \/ \E t \in Tasks : Timeout(t)
  \/ \E t \in Tasks : Wake(t)

SpecPage == InitPage /\ [][NextPage]_vars

----------------------------------------------------------------------------
\* The results a call can end with.
Outcomes == {"data", "error", "Aborted", "rethrown"}

TypeOK ==
  /\ tor \in {"undefined", "ready"}
  /\ page \in { Rendered(tr) : tr \in {"undefined", "ready"} }
  /\ capacity \in 1..MaxCapacity
  /\ pool \subseteq Ids
  /\ PoolSize <= capacity
  /\ \A c \in pool : alive[c] = "open"
  /\ \A t \in Tasks :
       /\ circuit[t] \in Ids \cup {0}
       /\ (pc[t] = "done") = (result[t] # "none")
       /\ result[t] \in Outcomes \cup {"none"}
       /\ attempts[t] \in 0..MaxTries
       /\ fails[t] \in 0..MaxTries

----------------------------------------------------------------------------
\* C1: under the mutex, no two executions of the take step (cryptoRandom, then
\* delete) return the same circuit instance: an instance is returned by at most
\* one take, and two calls never hold the same instance.
C1_NoDoubleLease ==
  /\ \A c \in Ids : leases[c] <= 1
  /\ \A t, u \in Tasks : (t # u /\ circuit[t] # 0) => circuit[t] # circuit[u]

\* C1: two calls are past the take step at once, each with a request in flight.
C1_Witness ==
  \E t, u \in Tasks :
    /\ t # u
    /\ pc[t] = "requesting" /\ pc[u] = "requesting"
    /\ leases[circuit[t]] = 1 /\ leases[circuit[u]] = 1

\* C2: after a fetch attempt has ended, in a response or in a failure, the
\* circuit that carried it is not in the pool.
C2_Original == \A c \in pool : use[c] # "ended"

\* C2, in the mutex-guarded variant alone: the pool holds only circuits that no
\* request was ever started on.
C2_MutexVariant == \A c \in pool : use[c] = "fresh"

C5_AbortedBeforeLease ==
  [][ \A t \in Tasks :
        (pc[t] = "top" /\ Aborted(t) /\ pc'[t] # pc[t]) =>
          /\ pc'[t] = "done"
          /\ result'[t] = "Aborted"
          /\ pool' = pool /\ mutex' = mutex /\ leases' = leases
          /\ alive' = alive /\ circuit' = circuit
          /\ attempts' = attempts ]_vars

\* C5: a call aborted before its first take has ended with Aborted, while the
\* pool had a circuit to give.
C5_Witness ==
  \E t \in Tasks :
    /\ result[t] = "Aborted" /\ attempts[t] = 0 /\ circuit[t] = 0
    /\ pool # {}

\* C6 as written: a call whose signal became set while its request was in
\* flight ends with Aborted (here: with the Aborted error or with the error it
\* rethrows under the set signal).
C6_Original ==
  \A t \in Tasks :
    (abortedAt[t] = "flight" /\ pc[t] = "done") =>
      result[t] \in {"Aborted", "rethrown"}

\* C7: when the body of a response that is not ok has been read, the call ends
\* in that step with { error }: no warning, no sleep, no new attempt, no
\* failure counted; and a call that has ended stays ended.
C7_NonOkTerminal ==
  [][ \A t \in Tasks :
        /\ (pc[t] = "reading" /\ status[t] = "notok" /\ exchange'[t] = "complete") =>
             /\ pc'[t] = "done"
             /\ result'[t] = "error"
             /\ warnings'[t] = warnings[t]
             /\ sleeps'[t] = sleeps[t]
             /\ attempts'[t] = attempts[t]
             /\ fails'[t] = fails[t]
        /\ (pc[t] = "done") =>
             (pc'[t] = "done" /\ result'[t] = result[t] /\ attempts'[t] = attempts[t]) ]_vars

\* C7: a call has ended with the application error of a non-2xx response,
\* and one did so on a retry.
C7_Witness ==
  \E t \in Tasks :
    /\ pc[t] = "done" /\ result[t] = "error" /\ status[t] = "notok"
    /\ exchange[t] = "complete"
    /\ fails[t] = 1 /\ warnings[t] = 1 /\ sleeps[t] = 1

\* C8: with a pool of capacity 1, a call waiting in the take step (for the
\* mutex, or for the pool to create a circuit again) gets a circuit and starts
\* its request.
C8_SecondGetsCircuit ==
  \A t \in Tasks :
    (capacity = 1 /\ pc[t] = "locking") ~> (pc[t] = "requesting" /\ circuit[t] # 0)

\* C8: capacity 1; the first call's take has emptied the pool and its request
\* is in flight, the second call holds the mutex and waits for a circuit.
C8_Witness ==
  \E t, u \in Tasks :
    /\ capacity = 1 /\ pool = {}
    /\ pc[t] = "requesting"
    /\ pc[u] = "locking" /\ MutexHeld(u)

C10_Original ==
  \A t \in Tasks :
    (pc[t] = "done" /\ circuit[t] # 0) =>
      /\ exchange[t] = "complete" \/ alive[circuit[t]] = "destroyed"
      /\ circuit[t] \notin pool

\* C11: when an attempt fails and the signal is not set, the step that warns
\* and starts the backoff sleep has destroyed the leased circuit; during the
\* sleep the circuit is destroyed, out of the pool and held by no other call;
\* and every take, of this call or of another, obtains an open circuit that no
\* request was started on, never the failed one.
C11_DestroyedBeforeBackoff ==
  /\ [](\A t \in Tasks :
         pc[t] = "sleeping" =>
           /\ alive[circuit[t]] = "destroyed"
           /\ circuit[t] \notin pool
           /\ \A u \in Tasks \ {t} : circuit[u] # circuit[t])
  /\ [][ \A t \in Tasks :
          /\ (pc[t] \in {"requesting", "reading"} /\ ~Aborted(t)
                /\ exchange'[t] = "failed") =>
               /\ alive'[circuit[t]] = "destroyed"
               /\ circuit[t] \notin pool'
               /\ pc'[t] = "sleeping"
          /\ (warnings'[t] # warnings[t] \/ sleeps'[t] # sleeps[t]) =>
               alive'[circuit[t]] = "destroyed"
          /\ (circuit'[t] # circuit[t] /\ circuit'[t] # 0) =>
               /\ alive[circuit'[t]] = "open"
               /\ use[circuit'[t]] = "fresh" ]_vars

\* C11: a call whose first attempt failed, and whose circuit was destroyed,
\* has a later attempt in flight on another, open circuit, while a second call
\* has taken a circuit too.
C11_Witness ==
  \E t, u \in Tasks :
    /\ t # u
    /\ ~Aborted(t) /\ fails[t] = 1 /\ warnings[t] = 1
    /\ pc[t] = "requesting" /\ alive[circuit[t]] = "open"
    /\ pc[u] = "requesting" /\ circuit[u] # circuit[t]

\* C12: when the timeout of an attempt expires and the signal of the call is
\* not set, the step is a failure to retry and no cancellation: the circuit is
\* destroyed, the call sleeps and has no result, and its steps after the sleep
\* are the top of the loop and, the signal still not set, the take step again;
\* no call ever ends on a timeout unless its own signal is set; and an attempt
\* in flight always has a timeout of its own that has not expired.
C12_TimeoutRetries ==
  /\ [][ \A t \in Tasks :
          /\ (~Aborted(t) /\ exchange'[t] = "timedout" /\ exchange[t] # "timedout") =>
               /\ alive'[circuit[t]] = "destroyed"
               /\ pc'[t] = "sleeping"
               /\ result'[t] = "none"
               /\ sleeps'[t] = Bump(sleeps[t])
          /\ (pc[t] = "sleeping" /\ pc'[t] # pc[t]) => pc'[t] = "top"
          /\ (pc[t] = "top" /\ ~Aborted(t) /\ pc'[t] # pc[t]) =>
               pc'[t] = "locking" ]_vars
  /\ [](\A t \in Tasks :
         /\ (pc[t] = "done" /\ exchange[t] = "timedout") =>
              (Aborted(t) /\ result[t] = "rethrown")
         /\ pc[t] \in {"requesting", "reading"} => exchange[t] = "inflight")

\* C12: the timeout of the first attempt has expired with the signal not set:
\* the call is in its backoff sleep and its circuit is destroyed.
C12_Witness ==
  \E t \in Tasks :
    /\ ~Aborted(t) /\ exchange[t] = "timedout"
    /\ pc[t] = "sleeping" /\ alive[circuit[t]] = "destroyed"
    /\ attempts[t] = 1 /\ result[t] = "none"

\* C13 as written: once the signal of a call is set, the next step of the call,
\* at whichever await it is suspended, ends it with Aborted, and the call takes
\* no further circuit out of the pool and starts no further request.
C13_Original ==
  [][ \A t \in Tasks :
        Aborted(t) =>
          /\ (pc'[t] # pc[t]) =>
               (pc'[t] = "done" /\ result'[t] \in {"Aborted", "rethrown"})
          /\ attempts'[t] = attempts[t]
          /\ leases' = leases \/ pc[t] # "selected" ]_vars

C16_CompletedResponseReturned ==
  [][ \A t \in Tasks :
        /\ (pc[t] = "reading" /\ Aborted(t) /\ exchange'[t] = "complete") =>
             /\ pc'[t] = "done"
             /\ result'[t] = IF status[t] = "ok" THEN "data" ELSE "error"
        /\ (result'[t] = "Aborted" /\ result[t] = "none") => pc[t] = "top"
        /\ (result'[t] = "rethrown" /\ result[t] = "none") =>
             /\ pc[t] \in {"requesting", "reading"}
             /\ exchange'[t] \in {"failed", "timedout"} ]_vars

\* C16: one call whose signal became set in the take step has returned the
\* data of its response, another whose signal became set during the request
\* has returned the application error.
C16_Witness ==
  \E t, u \in Tasks :
    /\ abortedAt[t] = "take" /\ result[t] = "data" /\ exchange[t] = "complete"
    /\ abortedAt[u] = "flight" /\ result[u] = "error" /\ exchange[u] = "complete"

\* C17: in the mutex-guarded variant the counts of a call agree at every
\* moment: the circuits it deleted from the pool are as many as the request
\* attempts it started; the circuits it destroyed, its warnings and the backoff
\* sleeps it started are as many as its attempts that failed while the signal
\* was not set (all its failures, less the one it rethrew under a set signal).
C17_CountsAgree ==
  \A t \in Tasks :
    /\ removals[t] = attempts[t]
    /\ destroys[t] = warnings[t]
    /\ warnings[t] = sleeps[t]
    /\ fails[t] < MaxTries =>
         sleeps[t] = IF result[t] = "rethrown" THEN fails[t] - 1 ELSE fails[t]

\* C17: a call that made two attempts: the first failed with the signal not
\* set, the second failed under the set signal and was rethrown.
C17_Witness ==
  \E t \in Tasks :
    /\ result[t] = "rethrown" /\ fails[t] = 2
    /\ attempts[t] = 2 /\ removals[t] = 2
    /\ destroys[t] = 1 /\ warnings[t] = 1 /\ sleeps[t] = 1

\* C18: no call of the Tor fetch exists before the client, the pool and the
\* mutex do: while the client is being made the page has no pool, no mutex and
\* no fetcher, and the pool holds no circuit; a page without a mutex has no
\* fetcher; and every call that has started runs with the client ready and the
\* pool and its mutex defined.
C18_NoFetchBeforeSetup ==
  /\ tor = "undefined" =>
       /\ page.pool = "undefined" /\ page.mutex = "undefined"
       /\ page.fetcher = "none"
  /\ page.mutex = "undefined" => page.fetcher = "none"
  /\ page.pool = "undefined" => pool = {}
  /\ \A t \in Tasks :
       pc[t] # "idle" =>
         /\ tor = "ready"
         /\ page.pool = "defined" /\ page.mutex = "defined"

\* C18: the client came up, the page rendered the pool, the mutex and the
\* fetcher, and one call has its request in flight while the other has not
\* been made yet.
C18_Witness ==
  \E t, u \in Tasks :
    /\ tor = "ready" /\ page.fetcher = "fetcher"
    /\ pc[t] = "requesting" /\ circuit[t] # 0
    /\ pc[u] = "idle"

====
